---- MODULE Spec2Model ----
(***************************************************************************)
(* Loyalty ledger, receipt pipeline and reward redemption of the BK        *)
(* loyalty API (api/src).  Every HTTP handler is a process that runs from  *)
(* one awaited store call to the next; the handlers of concurrent          *)
(* requests interleave at those awaits.  The data layer (data/db.js) has   *)
(* two back-ends: the in-memory fake-db, whose functions contain no await  *)
(* and therefore run atomically, and Cosmos DB, where every container call *)
(* is a separate step.                                                     *)
(***************************************************************************)
EXTENDS Integers, Sequences, FiniteSets, TLC

\* ---------------------------------------------------------------- bounds
NumProcs == 2
MaxRequests == 2
MaxSeqRequests == 3
MaxAnyRequests == 1
MaxClock == 1
MaxPart == 32

Procs == 1..NumProcs

\* ------------------------------------------------------- program constants
MAX_RECEIPT_AGE_DAYS == 2
DAILY_RECEIPT_LIMIT == 3
MAX_AMOUNT_FOR_POINTS == 80
FALLBACK_AMOUNT == 75
DEFAULT_POINTS_COST == 100

\* amounts are kept in tenths of a currency unit (42.50 is 425)
AmountUnit == 10

\* ------------------------------------------------------------ value sets
NullStr == "null"
Null == << >>
Some(x) == << x >>

Anonymous == "anonymous"
UserIds == {"demo-user-1", "user-2"}

NoBody == "no-body"
NoFile == "no-file"
Images == {"img-a", "img-b"}

NoId == -1
UnknownId == 0

\* the x-ms-client-principal header of a request: absent, not the encoding
\* of an object, a principal without userId, or the principal of a user
NoHeader == "no-header"
Malformed == "malformed"
NoUserId == "no-userId"
Headers == {NoHeader, Malformed, NoUserId} \cup UserIds

\* request.url, cut into the pieces that includes() can match
LocalUrl == << "http://", "localhost", ":7071/api" >>
RemoteUrl == << "https://", "bk.example", "/api" >>
QueryUrl == << "https://", "bk.example", "/api?from=", "localhost" >>
Urls == {LocalUrl, RemoteUrl, QueryUrl}

Host(url) == url[2]

\* the part of an HTTP request that identifies its sender
HttpRequests == [header : Headers, url : Urls]

\* a request sent from elsewhere by `caller`, signed in or not
RemoteRequest(caller) ==
  [header |-> IF caller \in UserIds THEN caller ELSE NoHeader,
   url |-> RemoteUrl]

\* err.message of what a store or blob call throws
TimeoutText == "connect ETIMEDOUT 10.0.0.4:443"
ConflictText == "Entity with the specified id already exists in the system"
ErrorTexts == {"", TimeoutText, "Request rate is large"}

REWARD_TIERS ==
  [ FREE_SIDE     |-> [name |-> "Free side",     pointsCost |-> 10],
    FREE_SANDWICH |-> [name |-> "Free sandwich", pointsCost |-> 25],
    FREE_MENU     |-> [name |-> "Free menu",     pointsCost |-> 40] ]

\* request bodies of redeem-reward: tier is a string or absent, pointsCost a
\* number or absent / non-numeric
RedeemBodies ==
  { [tier |-> "FREE_SANDWICH", rewardName |-> NullStr,     pointsCost |-> Null],
    [tier |-> "FREE_MENU",     rewardName |-> "Whopper",   pointsCost |-> Some(1)],
    [tier |-> NullStr,         rewardName |-> NullStr,     pointsCost |-> Null],
    [tier |-> "GOLD",          rewardName |-> "Whopper",   pointsCost |-> Some(80)],
    [tier |-> NullStr,         rewardName |-> "Whopper",   pointsCost |-> Some(-5)] }

\* results of the document extractor; date is a day number
Analysis(threw, amount, bk, date) ==
  [threw |-> threw, amount |-> amount, hasBurgerKing |-> bk, date |-> date]

AnalysesAt(today) ==
  { Analysis(FALSE, Some(425),  "true",  Some(today)),
    Analysis(FALSE, Some(1000), "null",  Some(today - 2)),
    Analysis(FALSE, Null,       "true",  Some(today + 1)),
    Analysis(FALSE, Some(-10),  "null",  Some(today - 1)),
    Analysis(FALSE, Some(425),  "false", Some(today)),
    Analysis(FALSE, Some(425),  "true",  Some(today - 3)),
    Analysis(FALSE, Some(425),  "null",  Some(today + 2)),
    Analysis(FALSE, Some(425),  "true",  Null),
    Analysis(FALSE, Null,       "false", Some(today - 3)),
    Analysis(TRUE,  Null,       "null",  Null) }

\* what upload-receipt and redeem-reward are called with
UploadInputs ==
  (UserIds \X Images)
    \cup {<< Anonymous, "img-a" >>, << "demo-user-1", NoBody >>,
          << "demo-user-1", NoFile >>}

RedeemInputs ==
  (UserIds \X RedeemBodies)
    \cup {<< Anonymous, [tier |-> "FREE_SANDWICH", rewardName |-> NullStr,
                         pointsCost |-> Null] >>}

\* the stores before the first request: nothing yet; one account; or two
\* accounts, one with three receipts accepted today (30 points each) and a
\* reward issued that is not redeemed yet, the other with two receipts
\* accepted today (5 points each)
AcceptedEarlier(userId, image, amount) ==
  [userId |-> userId, imageHash |-> image, amount |-> amount,
   pointsEarned |-> amount \div AmountUnit, createdAt |-> 0]

IssuedEarlier(tier) ==
  [userId |-> "demo-user-1", name |-> "Free side", pointsCost |-> 10,
   tier |-> tier, redeemed |-> FALSE, createdAt |-> 0, redeemedAt |-> Null]

InitialStores(isCosmos) ==
  { [users |-> [u \in {} |-> 0], receipts |-> << >>, rewards |-> << >>],
    [users |-> [u \in {"demo-user-1"} |-> 35], receipts |-> << >>,
     rewards |-> << >>],
    [users |-> [u \in UserIds |-> IF u = "demo-user-1" THEN 80 ELSE 10],
     receipts |-> << AcceptedEarlier("demo-user-1", "img-u", 300),
                     AcceptedEarlier("user-2", "img-v", 50),
                     AcceptedEarlier("demo-user-1", "img-w", 300),
                     AcceptedEarlier("user-2", "img-x", 50),
                     AcceptedEarlier("demo-user-1", "img-y", 300) >>,
     rewards |-> << IssuedEarlier(IF isCosmos THEN NullStr ELSE "FREE_SIDE") >>] }

\* ------------------------------------------------------------------ state
VARIABLES
  cosmos,      \* isCosmosConfigured()
  users,       \* Users container / fake users map: userId -> points
  receipts,    \* Receipts container: sequence, index = receipt id
  rewards,     \* Rewards container: sequence, index = reward id
  blobs,       \* number of images uploaded to blob storage
  now,         \* the server's clock, in days
  pc,          \* position of each request handler
  req,         \* the request each handler is serving
  loc,         \* the handler's local variables
  resp,        \* the response of the handler's last request
  started,     \* number of requests started so far
  init0,       \* history: the accounts and the numbers of rewards and
               \* receipts at the start
  credited,    \* history: sum of deltas of completed addPoints calls
  debited,     \* history: sum of costs written by createReward
  honoured,    \* history: per reward, number of valid:true answers
  accepted,    \* history: images answered with 200
  pre,         \* history: what the request saw when it started
  did,         \* history: what the request has done so far
  norm         \* a raw date text, the day it is read and what it normalizes to

vars == << cosmos, users, receipts, rewards, blobs, now, pc, req, loc, resp,
           started, init0, credited, debited, honoured, accepted, pre, did, norm >>

stores == << users, receipts, rewards, blobs >>
history == << init0, credited, debited, honoured, accepted >>

\* ---------------------------------------------------------------- helpers
Min(a, b) == IF a < b THEN a ELSE b

\* fake-db ensureUser / the value getUser returns
Balance(u) == IF u \in DOMAIN users THEN users[u] ELSE 0

\* the write replaces the whole container by the one document
SetPoints_Replace(u, points) == [v \in {u} |-> points]

SetPoints(u, points) ==
  [v \in DOMAIN users \cup {u} |-> IF v = u THEN points ELSE users[v]]

\* the account is set to 0 points whether it exists or not
ensureUser_Reset(userId) == SetPoints(userId, 0)

\* fake-db ensureUser: the users map after it
ensureUser(userId) == SetPoints(userId, Balance(userId))

NoReq ==
  [kind |-> "none", http |-> RemoteRequest(Anonymous), caller |-> Anonymous,
   image |-> NoBody,
   body |-> [tier |-> NullStr, rewardName |-> NullStr, pointsCost |-> Null],
   bodyId |-> NoId, urlId |-> NoId, rewardId |-> NoId]

NoReward ==
  [userId |-> Anonymous, name |-> NullStr, pointsCost |-> 0, tier |-> NullStr,
   redeemed |-> FALSE, createdAt |-> 0, redeemedAt |-> Null]

NoLoc ==
  [current |-> 0, reward |-> NoReward, amount |-> Null, pointsEarned |-> 0,
   receiptId |-> 0, reasons |-> << >>, extractorCalled |-> FALSE]

NoResp ==
  [status |-> 0, error |-> NullStr, reasons |-> << >>, valid |-> FALSE,
   userId |-> NullStr, points |-> Null, amount |-> Null, pointsEarned |-> 0,
   newBalance |-> Null, receiptId |-> 0, rewardId |-> 0, rewardName |-> NullStr,
   pointsCost |-> 0, tier |-> NullStr, message |-> NullStr,
   qrPayload |-> << >>, rewards |-> << >>]

NoPre == [balance |-> 0, nRewards |-> 0, accepted |-> FALSE]

NoDid == [analysis |-> Null, wrote |-> FALSE]

Civil(y, m, d) == [year |-> y, month |-> m, day |-> d]

NoNorm ==
  [part1 |-> 0, part2 |-> 0, year |-> 0, now |-> Civil(0, 1, 1),
   date |-> Null, done |-> FALSE, offset |-> 0, hour |-> 0, age |-> Null]

ErrorResp(status, error) == [NoResp EXCEPT !.status = status, !.error = error]

\* the body of the catch block of upload-receipt, redeem-reward and
\* get-user-balance; validate-reward has no catch block and the host answers
InternalError(kind, text) ==
  [ErrorResp(500, "INTERNAL_ERROR") EXCEPT
     !.message = IF kind = "validate" THEN NullStr
                 ELSE IF text # "" THEN text ELSE "Unknown error"]

\* --------------------------------------------- auth/client-principal.js
isLocalRequest(request) ==
  \E i \in 1..Len(request.url) : request.url[i] = "localhost"

getClientPrincipalFromRequest(request) ==
  IF request.header \in {NoHeader, Malformed} THEN Null
  ELSE Some([userId |-> IF request.header \in UserIds THEN request.header
                        ELSE NullStr])

DEV_USER_ID == "demo-user-1"

\* the user id of the sender, Anonymous for null
getUserId(request) ==
  LET principal == getClientPrincipalFromRequest(request)
  IN  IF principal # Null /\ principal[1].userId # NullStr
        THEN principal[1].userId
      ELSE IF isLocalRequest(request) THEN DEV_USER_ID
      ELSE Anonymous

\* ------------------------------------------------------------------ Init
InitProgram ==
  /\ cosmos \in BOOLEAN
  /\ \E s \in InitialStores(cosmos) :
       users = s.users /\ receipts = s.receipts /\ rewards = s.rewards
  /\ blobs = 0
  /\ now = 0
  /\ pc = [p \in Procs |-> "idle"]
  /\ req = [p \in Procs |-> NoReq]
  /\ loc = [p \in Procs |-> NoLoc]
  /\ resp = [p \in Procs |-> NoResp]
  /\ started = 0
  /\ init0 = [users |-> users, nRewards |-> Len(rewards),
              nReceipts |-> Len(receipts)]
  /\ credited = [u \in UserIds |-> 0]
  /\ debited = [u \in UserIds |-> 0]
  /\ honoured = [i \in 1..Len(rewards) |-> 0]
  /\ accepted = {}
  /\ pre = [p \in Procs |-> NoPre]
  /\ did = [p \in Procs |-> NoDid]

Init == InitProgram /\ norm = NoNorm

\* ------------------------------------------------- handler bookkeeping
CanStart(p) == pc[p] \in {"idle", "done"}

Snapshot(caller, image) ==
  [balance |-> Balance(caller), nRewards |-> Len(rewards),
   accepted |-> image \in accepted]

\* the handler of p returns r
Return(p, r) ==
  /\ pc' = [pc EXCEPT ![p] = "done"]
  /\ resp' = [resp EXCEPT ![p] = r]
  /\ loc' = [loc EXCEPT ![p] = NoLoc]

\* the handler of p goes on to the await at label l with locals l2
Goto(p, l, l2) ==
  /\ pc' = [pc EXCEPT ![p] = l]
  /\ loc' = [loc EXCEPT ![p] = l2]
  /\ resp' = resp

\* a handler starts on request r; the code before its first store call leads
\* to the await at label l, or to the response early when l is "done"
Begin(p, r, l, early) ==
  /\ CanStart(p)
  /\ started' = started + 1
  /\ req' = [req EXCEPT ![p] = r]
  /\ pre' = [pre EXCEPT ![p] = Snapshot(r.caller, r.image)]
  /\ pc' = [pc EXCEPT ![p] = l]
  /\ resp' = [resp EXCEPT ![p] = IF l = "done" THEN early ELSE NoResp]
  /\ loc' = [loc EXCEPT ![p] = NoLoc]
  /\ did' = [did EXCEPT ![p] = NoDid]

\* ------------------------------------------------------- Cosmos getUser
\* getUser as called at label `from`: container.item(userId, userId).read()
\* and, when there is no document, container.items.create(userDoc) at label
\* `create`, which fails with a conflict when another request has created
\* the document in the meantime.  `then` is the caller's code that runs on
\* the returned account, whose points are Balance(caller), up to its next
\* await.
GetUser(p, from, create, then) ==
  /\ cosmos
  /\ \/ /\ pc[p] = from
        /\ users' = users
        /\ IF req[p].caller \in DOMAIN users
             THEN then
             ELSE Goto(p, create, loc[p])
     \/ /\ pc[p] = create
        /\ IF req[p].caller \in DOMAIN users
             THEN /\ Return(p, InternalError(req[p].kind, ConflictText))
                  /\ users' = users
             ELSE /\ users' = SetPoints(req[p].caller, 0)
                  /\ then

\* --------------------------------------------------------- upload-receipt
\* the lookup finds nothing
FindReceiptByImageHash_Nothing(imageHash) == {}

FindReceiptByImageHash(imageHash) ==
  { i \in 1..Len(receipts) : receipts[i].imageHash = imageHash }

\* the count takes the user's receipts of every day
CountReceiptsForUserOnDay_AnyDay(userId, day) ==
  Cardinality({ i \in 1..Len(receipts) : receipts[i].userId = userId })

CountReceiptsForUserOnDay(userId, day) ==
  Cardinality({ i \in 1..Len(receipts) :
                  receipts[i].userId = userId /\ receipts[i].createdAt = day })

computeReceiptAgeDays(receiptDate, today) == today - receiptDate

ExtractedAmount(a) == IF a.threw THEN Null ELSE a.amount
ExtractedDate(a) == IF a.threw THEN Null ELSE a.date
ExtractedMerchant(a) == IF a.threw THEN "null" ELSE a.hasBurgerKing

\* an unknown merchant blocks as a confirmed mismatch does
MerchantReasons_UnknownBlocks(hasBurgerKing) ==
  IF hasBurgerKing # "true" THEN << "MERCHANT_NOT_BURGER_KING" >> ELSE << >>

MerchantReasons(hasBurgerKing) ==
  IF hasBurgerKing = "false" THEN << "MERCHANT_NOT_BURGER_KING" >> ELSE << >>

\* a receipt without a usable date passes the date check
DateReasons_NoDateAccepted(transactionDate, today) ==
  IF transactionDate = Null THEN << >>
  ELSE LET receiptAgeDays == computeReceiptAgeDays(transactionDate[1], today) IN
       IF receiptAgeDays > MAX_RECEIPT_AGE_DAYS THEN << "RECEIPT_TOO_OLD" >>
       ELSE IF receiptAgeDays < -1 THEN << "RECEIPT_IN_FUTURE" >>
       ELSE << >>

\* a receipt of exactly MAX_RECEIPT_AGE_DAYS days is too old
DateReasons_Inclusive(transactionDate, today) ==
  IF transactionDate = Null THEN << "DATE_NOT_DETECTED" >>
  ELSE LET receiptAgeDays == computeReceiptAgeDays(transactionDate[1], today) IN
       IF receiptAgeDays >= MAX_RECEIPT_AGE_DAYS THEN << "RECEIPT_TOO_OLD" >>
       ELSE IF receiptAgeDays < -1 THEN << "RECEIPT_IN_FUTURE" >>
       ELSE << >>

DateReasons(transactionDate, today) ==
  IF transactionDate = Null THEN << "DATE_NOT_DETECTED" >>
  ELSE LET receiptAgeDays == computeReceiptAgeDays(transactionDate[1], today) IN
       IF receiptAgeDays > MAX_RECEIPT_AGE_DAYS THEN << "RECEIPT_TOO_OLD" >>
       ELSE IF receiptAgeDays < -1 THEN << "RECEIPT_IN_FUTURE" >>
       ELSE << >>

AmountInvalid(amount) == amount = Null \/ amount[1] <= 0

AmountReasons(amount) ==
  IF AmountInvalid(amount) THEN << "INVALID_AMOUNT" >> ELSE << >>

\* the checks stop at the first reason
Reasons_FirstOnly(a, today) ==
  LET all == MerchantReasons(ExtractedMerchant(a))
               \o DateReasons(ExtractedDate(a), today)
               \o AmountReasons(ExtractedAmount(a))
  IN  IF all = << >> THEN << >> ELSE << Head(all) >>

Reasons(a, today) ==
  MerchantReasons(ExtractedMerchant(a))
    \o DateReasons(ExtractedDate(a), today)
    \o AmountReasons(ExtractedAmount(a))

BlockingCodes ==
  {"MERCHANT_NOT_BURGER_KING", "RECEIPT_TOO_OLD", "RECEIPT_IN_FUTURE",
   "DATE_NOT_DETECTED"}

HasBlocking(reasons) == \E i \in 1..Len(reasons) : reasons[i] \in BlockingCodes

\* no fallback: an absent amount counts as 0, any other is kept
FinalAmount_Extracted(amount) == IF amount = Null THEN 0 ELSE amount[1]

FinalAmount(amount) ==
  IF AmountInvalid(amount) THEN FALLBACK_AMOUNT * AmountUnit ELSE amount[1]

\* Math.floor(Math.min(amount, MAX_AMOUNT_FOR_POINTS))
PointsEarned(amount) ==
  Min(amount, MAX_AMOUNT_FOR_POINTS * AmountUnit) \div AmountUnit

\* the extractor is called before the duplicate lookup
UploadAwaits_ExtractorFirst ==
  << "ur_analyze", "ur_find", "ur_count", "ur_blob", "ur_create", "ur_add" >>

\* the image is uploaded before the daily count is checked
UploadAwaits_BlobBeforeCount ==
  << "ur_find", "ur_analyze", "ur_blob", "ur_count", "ur_create", "ur_add" >>

\* the points are credited before the receipt is persisted
UploadAwaits_CreditBeforeReceipt ==
  << "ur_find", "ur_analyze", "ur_count", "ur_blob", "ur_add", "ur_create" >>

\* the awaits of the handler in the order it reaches them: duplicate lookup,
\* extractor, daily count, blob upload, createReceipt, addPoints
UploadAwaits ==
  << "ur_find", "ur_analyze", "ur_count", "ur_blob", "ur_create", "ur_add" >>

AfterAwait(l) ==
  UploadAwaits[(CHOOSE i \in 1..Len(UploadAwaits) : UploadAwaits[i] = l) + 1]

StartUpload(p, request, image) ==
  /\ LET caller == getUserId(request)
     IN  Begin(p, [NoReq EXCEPT !.kind = "upload", !.http = request,
                                !.caller = caller, !.image = image],
               IF caller # Anonymous /\ image \in Images THEN UploadAwaits[1]
               ELSE "done",
               IF caller = Anonymous THEN ErrorResp(401, "UNAUTHENTICATED")
               ELSE IF image = NoBody THEN ErrorResp(400, "Missing JSON body")
               ELSE ErrorResp(400, "fileBase64 required for upload-receipt"))
  /\ UNCHANGED << cosmos, stores, now, history, norm >>

FindDuplicate(p) ==
  /\ pc[p] = "ur_find"
  /\ IF FindReceiptByImageHash(req[p].image) # {}
       THEN Return(p, ErrorResp(400, "DUPLICATE_RECEIPT"))
       ELSE Goto(p, AfterAwait("ur_find"), loc[p])
  /\ UNCHANGED << cosmos, stores, now, req, started, history, pre, norm >>

Analyze(p, a) ==
  /\ pc[p] = "ur_analyze"
  /\ LET reasons == Reasons(a, now)
         amount == ExtractedAmount(a)
     IN IF HasBlocking(reasons)
          THEN Return(p, [ErrorResp(400, "RECEIPT_REJECTED") EXCEPT
                            !.reasons = reasons, !.amount = amount])
          ELSE Goto(p, AfterAwait("ur_analyze"),
                    [loc[p] EXCEPT !.reasons = reasons,
                                   !.extractorCalled = TRUE,
                                   !.amount = Some(FinalAmount(amount))])
  /\ did' = [did EXCEPT ![p].analysis = Some(a)]
  /\ UNCHANGED << cosmos, stores, now, req, started, history, pre, norm >>

CountToday(p) ==
  /\ pc[p] = "ur_count"
  /\ IF CountReceiptsForUserOnDay(req[p].caller, now) >= DAILY_RECEIPT_LIMIT
       THEN Return(p, ErrorResp(400, "DAILY_LIMIT_REACHED"))
       ELSE Goto(p, AfterAwait("ur_count"),
                 [loc[p] EXCEPT !.pointsEarned = PointsEarned(loc[p].amount[1])])
  /\ UNCHANGED << cosmos, stores, now, req, started, history, pre, norm >>

UploadReceiptImage(p) ==
  /\ pc[p] = "ur_blob"
  /\ blobs' = blobs + 1
  /\ Goto(p, AfterAwait("ur_blob"), loc[p])
  /\ UNCHANGED << cosmos, users, receipts, rewards, now, req, started,
                  history, pre, norm >>

\* the capped amount is stored
ReceiptDoc_Capped(userId, imageHash, amount, pointsEarned, nowIso) ==
  [userId |-> userId, imageHash |-> imageHash,
   amount |-> Min(amount, MAX_AMOUNT_FOR_POINTS * AmountUnit),
   pointsEarned |-> pointsEarned, createdAt |-> nowIso]

\* receiptDoc of createReceipt
ReceiptDoc(userId, imageHash, amount, pointsEarned, nowIso) ==
  [userId |-> userId, imageHash |-> imageHash, amount |-> amount,
   pointsEarned |-> pointsEarned, createdAt |-> nowIso]

CreateReceipt(p) ==
  /\ pc[p] = "ur_create"
  /\ receipts' = Append(receipts,
       ReceiptDoc(req[p].caller, req[p].image, loc[p].amount[1],
                  loc[p].pointsEarned, now))
  /\ Goto(p, AfterAwait("ur_create"), [loc[p] EXCEPT !.receiptId = Len(receipts) + 1])
  /\ UNCHANGED << cosmos, users, rewards, blobs, now, req, started, history,
                  pre, norm >>

UploadOk(p, points) ==
  [NoResp EXCEPT !.status = 200, !.userId = req[p].caller,
                 !.amount = loc[p].amount,
                 !.pointsEarned = loc[p].pointsEarned,
                 !.newBalance = Some(points),
                 !.receiptId = loc[p].receiptId]

\* addPoints has written the new balance `points`; the handler responds
AddPointsDone(p, points) ==
  /\ users' = SetPoints(req[p].caller, points)
  /\ credited' = [credited EXCEPT
                    ![req[p].caller] = @ + loc[p].pointsEarned]
  /\ accepted' = accepted \cup {req[p].image}
  /\ Return(p, UploadOk(p, points))
  /\ UNCHANGED << cosmos, receipts, rewards, blobs, now, req, started, init0,
                  debited, honoured, pre, norm >>

NewPointsAfterCredit(current, delta) == current + delta

\* fake-db addPoints: no await between the read and the write
FakeAddPoints(p) ==
  /\ pc[p] = "ur_add" /\ ~cosmos
  /\ AddPointsDone(p, NewPointsAfterCredit(Balance(req[p].caller),
                                           loc[p].pointsEarned))

\* Cosmos addPoints: getUser, then the upsert of what it returned plus delta
AddPointsThen(p, points) ==
  Goto(p, "ap_upsert", [loc[p] EXCEPT !.current = points])

AddPointsGetUser(p) ==
  /\ GetUser(p, "ur_add", "ap_newuser",
             AddPointsThen(p, Balance(req[p].caller)))
  /\ UNCHANGED << cosmos, receipts, rewards, blobs, now, req, started,
                  history, pre, norm >>

AddPointsUpsert(p) ==
  /\ pc[p] = "ap_upsert"
  /\ AddPointsDone(p, NewPointsAfterCredit(loc[p].current,
                                           loc[p].pointsEarned))

\* --------------------------------------------------- normalizeReceiptDate
\* the numeric parts of a raw date text that matches
\* (\d{1,2})[/-.](\d{1,2})[/-.](\d{2,4}), and the days it is read on
Parts == 0..MaxPart
Years == {2024, 2025}
Nows == {Civil(2025, 2, 13), Civil(2025, 4, 3)}

Abs(x) == IF x < 0 THEN -x ELSE x

IsLeapYear(y) == (y % 4 = 0 /\ y % 100 # 0) \/ y % 400 = 0

DaysBeforeYear(y) ==
  365 * (y - 1) + (y - 1) \div 4 - (y - 1) \div 100 + (y - 1) \div 400

DaysBeforeMonth(y, m) ==
  << 0, 31, 59, 90, 120, 151, 181, 212, 243, 273, 304, 334 >>[m]
    + (IF m > 2 /\ IsLeapYear(y) THEN 1 ELSE 0)

\* new Date(year, monthIndex, day) at local midnight, as a day number: a
\* month index outside 0..11 and a day outside the month carry over
LocalMidnight(year, monthIndex, day) ==
  LET y == year + (monthIndex \div 12)
      m == (monthIndex % 12) + 1
  IN DaysBeforeYear(y) + DaysBeforeMonth(y, m) + day - 1

TwoDigitYear(year) ==
  IF year < 100 THEN (IF year >= 70 THEN 1900 + year ELSE 2000 + year)
  ELSE year

pushCandidate(day, month, year) ==
  IF day < 1 \/ day > 31 \/ month < 1 \/ month > 12 THEN << >>
  ELSE << LocalMidnight(year, month - 1, day) >>

Candidates(part1, part2, year) ==
  pushCandidate(part1, part2, year)
    \o (IF part1 <= 12 /\ part2 <= 31 THEN pushCandidate(part2, part1, year)
        ELSE << >>)

\* the first candidate is taken, whatever its distance to now
Best_First(candidates, i, best, baseMidnight) == candidates[1]

\* the loop over candidates[i..]: a candidate replaces the best one so far
\* when it is strictly closer to baseMidnight
RECURSIVE Best(_, _, _, _)
Best(candidates, i, best, baseMidnight) ==
  IF i > Len(candidates) THEN best
  ELSE Best(candidates, i + 1,
            IF Abs(candidates[i] - baseMidnight) < Abs(best - baseMidnight)
              THEN candidates[i] ELSE best,
            baseMidnight)

normalizeReceiptDate(part1, part2, year, nowDate) ==
  LET candidates == Candidates(part1, part2, TwoDigitYear(year))
      baseMidnight == LocalMidnight(nowDate.year, nowDate.month - 1, nowDate.day)
  IN IF candidates = << >> THEN Null
     ELSE Some(Best(candidates, 2, candidates[1], baseMidnight))

\* ---------------------------------------------------------- redeem-reward
\* the name and cost of the body win over the catalog's
ResolveReward_BodyFirst(body) ==
  [name |-> IF body.rewardName # NullStr THEN body.rewardName
            ELSE IF body.tier \in DOMAIN REWARD_TIERS
              THEN REWARD_TIERS[body.tier].name
            ELSE "Free Sundae",
   pointsCost |-> IF body.pointsCost # Null THEN body.pointsCost[1]
                  ELSE IF body.tier \in DOMAIN REWARD_TIERS
                    THEN REWARD_TIERS[body.tier].pointsCost
                  ELSE DEFAULT_POINTS_COST,
   tier |-> IF body.tier \in DOMAIN REWARD_TIERS THEN body.tier ELSE NullStr]

\* a body without pointsCost costs nothing
ResolveReward_FreeDefault(body) ==
  IF body.tier \in DOMAIN REWARD_TIERS
    THEN [name |-> REWARD_TIERS[body.tier].name,
          pointsCost |-> REWARD_TIERS[body.tier].pointsCost,
          tier |-> body.tier]
    ELSE [name |-> IF body.rewardName = NullStr THEN "Free Sundae"
                   ELSE body.rewardName,
          pointsCost |-> IF body.pointsCost # Null THEN body.pointsCost[1]
                         ELSE 0,
          tier |-> NullStr]

ResolveReward(body) ==
  IF body.tier \in DOMAIN REWARD_TIERS
    THEN [name |-> REWARD_TIERS[body.tier].name,
          pointsCost |-> REWARD_TIERS[body.tier].pointsCost,
          tier |-> body.tier]
    ELSE [name |-> IF body.rewardName = NullStr THEN "Free Sundae"
                   ELSE body.rewardName,
          pointsCost |-> IF body.pointsCost # Null THEN body.pointsCost[1]
                         ELSE DEFAULT_POINTS_COST,
          tier |-> NullStr]

Cost(p) == ResolveReward(req[p].body).pointsCost

\* createReward without the balance check
NotEnoughPoints_Unchecked(currentPoints, pointsCost) == FALSE

\* the balance check refusing a balance equal to the cost
NotEnoughPoints_Strict(currentPoints, pointsCost) == currentPoints <= pointsCost

NotEnoughPoints(currentPoints, pointsCost) == currentPoints < pointsCost

\* the cost is not taken off the balance
NewPointsAfterDebit_Kept(currentPoints, pointsCost) == currentPoints

NewPointsAfterDebit(currentPoints, pointsCost) == currentPoints - pointsCost

\* the handler calls createReward(userId, rewardName, pointsCost, tier), but
\* db.js createReward takes (userId, name, pointsCost): its Cosmos document
\* has no tier, and it calls fake-db createReward without the tier, whose
\* default is null
NewReward(userId, name, pointsCost, tier, nowIso) ==
  [userId |-> userId, name |-> name, pointsCost |-> pointsCost,
   tier |-> NullStr,
   redeemed |-> FALSE, createdAt |-> nowIso, redeemedAt |-> Null]

StartRedeem(p, request, body) ==
  /\ LET caller == getUserId(request)
     IN  Begin(p, [NoReq EXCEPT !.kind = "redeem", !.http = request,
                                !.caller = caller, !.body = body],
               IF caller = Anonymous THEN "done" ELSE "rr_create",
               ErrorResp(401, "UNAUTHENTICATED"))
  /\ UNCHANGED << cosmos, stores, now, history, norm >>

\* ------------------------------------------------------------- QR payload
\* texts are sequences of pieces; the id of the n-th reward is a fresh UUID,
\* behind "fake-reward-" in the in-memory store
RewardIdText(n) ==
  IF cosmos THEN << ToString(n) >> ELSE << "fake-reward-", ToString(n) >>

\* `reward:${reward.id}` of the redeem-reward handler
qrPayload(id) == << "reward:" >> \o id

\* `reward:${reward.id}` of the customer app's reward history
qrValue(id) == << "reward:" >> \o id

IsSpace(piece) == piece = " "

RECURSIVE trimStart(_)
trimStart(text) ==
  IF text # << >> /\ IsSpace(Head(text)) THEN trimStart(Tail(text)) ELSE text

RECURSIVE trimEnd(_)
trimEnd(text) ==
  IF text # << >> /\ IsSpace(text[Len(text)])
    THEN trimEnd(SubSeq(text, 1, Len(text) - 1))
    ELSE text

trim(text) == trimEnd(trimStart(text))

toLowerCase(piece) == IF piece = "REWARD:" THEN "reward:" ELSE piece

\* the scanned text is used as it is
handleScanResult_Whole(text) == trim(trim(text))

\* the staff app: handleScanResult strips the prefix, validateReward trims
\* again and posts the result as rewardId
handleScanResult(text) ==
  LET code == trim(text)
  IN  trim(IF code # << >> /\ toLowerCase(Head(code)) = "reward:"
             THEN Tail(code) ELSE code)

\* rewards.get(rewardId) / SELECT * FROM c WHERE c.id = @id: the number of
\* the reward with that id, UnknownId when there is none
RewardWithId(id) ==
  IF \E n \in 1..Len(rewards) : RewardIdText(n) = id
    THEN CHOOSE n \in 1..Len(rewards) : RewardIdText(n) = id
    ELSE UnknownId

\* rewardsContainer.items.create(rewardDoc) and the handler's response
InsertReward(p, newPoints) ==
  LET r == ResolveReward(req[p].body)
      reward == NewReward(req[p].caller, r.name, r.pointsCost, r.tier, now)
  IN /\ rewards' = Append(rewards, reward)
     /\ honoured' = Append(honoured, 0)
     /\ Return(p, [NoResp EXCEPT
                     !.status = 200, !.rewardId = Len(rewards) + 1,
                     !.rewardName = reward.name,
                     !.pointsCost = reward.pointsCost,
                     !.newBalance = Some(newPoints),
                     !.qrPayload = qrPayload(RewardIdText(Len(rewards) + 1)),
                     !.tier = IF reward.tier # NullStr THEN reward.tier
                              ELSE r.tier])

\* fake-db createReward: check, debit and insert without an await
FakeCreateReward(p) ==
  /\ pc[p] = "rr_create" /\ ~cosmos
  /\ LET u == req[p].caller IN
     IF NotEnoughPoints(Balance(u), Cost(p))
       THEN /\ users' = ensureUser(u)
            /\ Return(p, ErrorResp(400, "NOT_ENOUGH_POINTS"))
            /\ UNCHANGED << rewards, debited, honoured >>
       ELSE /\ users' = SetPoints(u, NewPointsAfterDebit(Balance(u), Cost(p)))
            /\ debited' = [debited EXCEPT ![u] = @ + Cost(p)]
            /\ InsertReward(p, NewPointsAfterDebit(Balance(u), Cost(p)))
  /\ UNCHANGED << cosmos, receipts, blobs, now, req, started, init0, credited,
                  accepted, pre, norm >>

\* the balance check of createReward on what getUser returned
CreateRewardThen(p, points) ==
  IF NotEnoughPoints(points, Cost(p))
    THEN Return(p, ErrorResp(400, "NOT_ENOUGH_POINTS"))
    ELSE Goto(p, "cr_upsert", [loc[p] EXCEPT !.current = points])

CreateRewardGetUser(p) ==
  /\ GetUser(p, "rr_create", "cr_newuser",
             CreateRewardThen(p, Balance(req[p].caller)))
  /\ UNCHANGED << cosmos, receipts, rewards, blobs, now, req, started,
                  history, pre, norm >>

CreateRewardUpsert(p) ==
  /\ pc[p] = "cr_upsert"
  /\ users' = SetPoints(req[p].caller,
                        NewPointsAfterDebit(loc[p].current, Cost(p)))
  /\ debited' = [debited EXCEPT ![req[p].caller] = @ + Cost(p)]
  /\ Goto(p, "cr_insert", loc[p])
  /\ UNCHANGED << cosmos, receipts, rewards, blobs, now, req, started, init0,
                  credited, honoured, accepted, pre, norm >>

CreateRewardInsert(p) ==
  /\ pc[p] = "cr_insert"
  /\ InsertReward(p, NewPointsAfterDebit(loc[p].current, Cost(p)))
  /\ UNCHANGED << cosmos, users, receipts, blobs, now, req, started, init0,
                  credited, debited, accepted, pre, norm >>

\* -------------------------------------------------------- validate-reward
\* redeemReward without the already-redeemed check
IsRedeemed_Unchecked(reward) == FALSE

IsRedeemed(reward) == reward.redeemed

\* the transition without the redeemedAt stamp
MarkRedeemed_Unstamped(reward, nowIso) == [reward EXCEPT !.redeemed = TRUE]

MarkRedeemed(reward, nowIso) ==
  [reward EXCEPT !.redeemed = TRUE, !.redeemedAt = Some(nowIso)]

ValidOk(reward) ==
  [NoResp EXCEPT !.status = 200, !.valid = TRUE, !.rewardName = reward.name,
                 !.userId = reward.userId]

AlreadyRedeemed(reward) ==
  [ErrorResp(409, "ALREADY_REDEEMED") EXCEPT !.rewardName = reward.name]

\* the id of the query string wins over the body's
ResolvedRewardId_QueryFirst(bodyId, urlId) ==
  IF urlId # NoId THEN urlId ELSE bodyId

\* const rewardId = bodyId || urlId, NoId for an absent or empty id
ResolvedRewardId(bodyId, urlId) ==
  IF bodyId # NoId THEN bodyId ELSE urlId

StartValidate(p, bodyId, urlId) ==
  /\ LET rewardId == ResolvedRewardId(bodyId, urlId)
     IN  Begin(p, [NoReq EXCEPT !.kind = "validate", !.bodyId = bodyId,
                                !.urlId = urlId, !.rewardId = rewardId],
               IF rewardId = NoId THEN "done" ELSE "vr_redeem",
               ErrorResp(400, "MISSING_ID"))
  /\ UNCHANGED << cosmos, stores, now, history, norm >>

\* fake-db redeemReward: lookup, check and update without an await
FakeRedeemReward(p) ==
  /\ pc[p] = "vr_redeem" /\ ~cosmos
  /\ LET id == req[p].rewardId IN
     IF id \notin 1..Len(rewards)
       THEN /\ Return(p, ErrorResp(404, "NOT_FOUND"))
            /\ UNCHANGED << rewards, honoured >>
       ELSE IF IsRedeemed(rewards[id])
         THEN /\ Return(p, AlreadyRedeemed(rewards[id]))
              /\ UNCHANGED << rewards, honoured >>
         ELSE /\ rewards' = [rewards EXCEPT ![id] = MarkRedeemed(@, now)]
              /\ honoured' = [honoured EXCEPT ![id] = @ + 1]
              /\ Return(p, ValidOk(rewards[id]))
  /\ UNCHANGED << cosmos, users, receipts, blobs, now, req, started, init0,
                  credited, debited, accepted, pre, norm >>

\* Cosmos redeemReward: the query, and the check on the document it returned
RedeemRewardQuery(p) ==
  /\ pc[p] = "vr_redeem" /\ cosmos
  /\ LET id == req[p].rewardId IN
     IF id \notin 1..Len(rewards)
       THEN Return(p, ErrorResp(404, "NOT_FOUND"))
       ELSE IF IsRedeemed(rewards[id])
         THEN Return(p, AlreadyRedeemed(rewards[id]))
         ELSE Goto(p, "rd_replace", [loc[p] EXCEPT !.reward = rewards[id]])
  /\ UNCHANGED << cosmos, stores, now, req, started, history, pre, norm >>

\* container.item(reward.id, reward.userId).replace(reward): unconditional
RedeemRewardReplace(p) ==
  /\ pc[p] = "rd_replace"
  /\ LET id == req[p].rewardId IN
     /\ rewards' = [rewards EXCEPT ![id] = MarkRedeemed(loc[p].reward, now)]
     /\ honoured' = [honoured EXCEPT ![id] = @ + 1]
     /\ Return(p, ValidOk(loc[p].reward))
  /\ UNCHANGED << cosmos, users, receipts, blobs, now, req, started, init0,
                  credited, debited, accepted, pre, norm >>

\* ------------------------------------------------------- get-user-balance
BalanceOk(userId, points) ==
  [NoResp EXCEPT !.status = 200, !.userId = userId, !.points = Some(points)]

\* the handler reads the account of a fixed user id, whoever sent the request
StartBalance(p, request) ==
  /\ Begin(p, [NoReq EXCEPT !.kind = "balance", !.http = request,
                            !.caller = "demo-user-1"],
           "gb_get", NoResp)
  /\ UNCHANGED << cosmos, stores, now, history, norm >>

FakeGetUser(p) ==
  /\ pc[p] = "gb_get" /\ ~cosmos
  /\ users' = ensureUser(req[p].caller)
  /\ Return(p, BalanceOk(req[p].caller, users'[req[p].caller]))
  /\ UNCHANGED << cosmos, receipts, rewards, blobs, now, req, started,
                  history, pre, norm >>

BalanceThen(p, points) == Return(p, BalanceOk(req[p].caller, points))

BalanceGetUser(p) ==
  /\ GetUser(p, "gb_get", "gb_newuser",
             BalanceThen(p, Balance(req[p].caller)))
  /\ UNCHANGED << cosmos, receipts, rewards, blobs, now, req, started,
                  history, pre, norm >>

\* ------------------------------------------------------------ environment
Tick ==
  /\ now < MaxClock
  /\ now' = now + 1
  /\ UNCHANGED << cosmos, stores, pc, req, loc, resp, started, history, pre,
                  did, norm >>

CosmosCalls ==
  {"ur_find", "ur_count", "ur_create", "ur_add", "ap_newuser", "ap_upsert",
   "rr_create", "cr_newuser", "cr_upsert", "cr_insert", "vr_redeem",
   "rd_replace", "gb_get", "gb_newuser"}

\* ------------------------------------------------------- get-user-rewards
\* the functions that data/db.js exports
DbExports ==
  {"getUser", "addPoints", "createReceipt", "createReward", "redeemReward",
   "countReceiptsForUserOnDay", "findReceiptByImageHash"}

\* the numbers of the rewards of userId in the order of the store
RECURSIVE RewardsOf(_, _)
RewardsOf(userId, n) ==
  IF n = 0 THEN << >>
  ELSE RewardsOf(userId, n - 1)
         \o (IF rewards[n].userId = userId THEN << n >> ELSE << >>)

\* list.sort by createdAt, newest first, equal dates keeping their order
RECURSIVE NewestFirst(_)
NewestFirst(list) ==
  IF list = << >> THEN << >>
  ELSE LET first == CHOOSE i \in 1..Len(list) :
                      /\ \A j \in 1..Len(list) :
                           rewards[list[j]].createdAt
                             <= rewards[list[i]].createdAt
                      /\ \A j \in 1..(i - 1) :
                           rewards[list[j]].createdAt
                             < rewards[list[i]].createdAt
       IN << list[first] >>
            \o NewestFirst(SubSeq(list, 1, first - 1)
                             \o SubSeq(list, first + 1, Len(list)))

\* fake-db listRewardsForUser
listRewardsForUser(userId) == NewestFirst(RewardsOf(userId, Len(rewards)))

\* the handler destructures listRewardsForUser from data/db.js, which does
\* not export it: the call throws a TypeError inside the try block
StartRewards(p, request) ==
  /\ LET caller == getUserId(request)
     IN  Begin(p, [NoReq EXCEPT !.kind = "rewards", !.http = request,
                                !.caller = caller],
               "done",
               IF caller = Anonymous THEN ErrorResp(401, "UNAUTHENTICATED")
               ELSE IF "listRewardsForUser" \in DbExports
                 THEN [NoResp EXCEPT !.status = 200,
                                     !.rewards = listRewardsForUser(caller)]
               ELSE InternalError("rewards",
                                  "listRewardsForUser is not a function"))
  /\ UNCHANGED << cosmos, stores, now, history, norm >>

\* a store or blob call of p throws; the handler answers 500
StoreFails(p, text) ==
  /\ \/ cosmos /\ pc[p] \in CosmosCalls
     \/ pc[p] = "ur_blob"
  /\ Return(p, InternalError(req[p].kind, text))
  /\ UNCHANGED << cosmos, stores, now, req, started, history, pre, did, norm >>

Quiescent == \A p \in Procs : pc[p] \in {"idle", "done"}

Start(p) ==
  \/ \E i \in UploadInputs : StartUpload(p, RemoteRequest(i[1]), i[2])
  \/ \E i \in RedeemInputs : StartRedeem(p, RemoteRequest(i[1]), i[2])
  \/ \E id \in NoId..Len(rewards) : StartValidate(p, id, NoId)
  \/ StartBalance(p, RemoteRequest("demo-user-1"))

\* a request of any kind with any header and url
StartAny(p) ==
  \/ \E request \in HttpRequests, image \in Images \cup {NoBody, NoFile} :
       StartUpload(p, request, image)
  \/ \E request \in HttpRequests, body \in RedeemBodies :
       StartRedeem(p, request, body)
  \/ \E bodyId, urlId \in NoId..Len(rewards) :
       StartValidate(p, bodyId, urlId)
  \/ \E request \in HttpRequests : StartBalance(p, request)
  \/ \E request \in HttpRequests : StartRewards(p, request)

\* the history of the request of p after a step that calls a store: whether
\* the request has changed a store
Records(p) == did' = [did EXCEPT ![p].wrote = @ \/ stores' # stores]

\* the steps of the handlers that call a store
StoreCall(p) ==
  \/ FindDuplicate(p)
  \/ CountToday(p)
  \/ UploadReceiptImage(p)
  \/ CreateReceipt(p)
  \/ FakeAddPoints(p)
  \/ AddPointsGetUser(p)
  \/ AddPointsUpsert(p)
  \/ FakeCreateReward(p)
  \/ CreateRewardGetUser(p)
  \/ CreateRewardUpsert(p)
  \/ CreateRewardInsert(p)
  \/ FakeRedeemReward(p)
  \/ RedeemRewardQuery(p)
  \/ RedeemRewardReplace(p)
  \/ FakeGetUser(p)
  \/ BalanceGetUser(p)

Step(p) ==
  \/ \E a \in AnalysesAt(now) : Analyze(p, a)
  \/ StoreCall(p) /\ Records(p)

\* requests of any kind, interleaved at their awaits, store calls failing
Next ==
  \/ \E p \in Procs : started < MaxRequests /\ Start(p)
  \/ \E p \in Procs : Step(p)
  \/ \E p \in Procs : StoreFails(p, TimeoutText)
  \/ Tick

Spec == Init /\ [][Next]_vars

\* requests served one at a time by one handler, every store call succeeding
SeqProc == CHOOSE p \in Procs : \A q \in Procs : p <= q

NextSeq ==
  \/ started < MaxSeqRequests /\ Start(SeqProc)
  \/ Step(SeqProc)
  \/ Tick

SeqSpec == Init /\ [][NextSeq]_vars

\* one request with any header and url, its store calls failing with any
\* error text
NextAny ==
  \/ started < MaxAnyRequests /\ StartAny(SeqProc)
  \/ Step(SeqProc)
  \/ \E text \in ErrorTexts : StoreFails(SeqProc, text)
  \/ Tick

AnySpec == Init /\ [][NextAny]_vars

\* normalizeReceiptDate on its own: any numeric date text, read on any of
\* the days, while no request is served
InitNormalize ==
  /\ InitProgram /\ ~cosmos /\ DOMAIN users = {}
  /\ \E part1 \in Parts, part2 \in Parts, year \in Years, nowDate \in Nows :
       norm = [NoNorm EXCEPT !.part1 = part1, !.part2 = part2, !.year = year,
                             !.now = nowDate]

Normalize ==
  /\ ~norm.done
  /\ norm' = [norm EXCEPT
                !.date = normalizeReceiptDate(norm.part1, norm.part2,
                                              norm.year, norm.now),
                !.done = TRUE]
  /\ UNCHANGED << cosmos, stores, now, pc, req, loc, resp, started, history,
                  pre, did >>

NormalizeSpec == InitNormalize /\ [][Normalize]_vars

\* the server's time zones, in hours east of UTC, and the local hours of the
\* day at which a receipt is checked
Offsets == {-8, 0, 1}
Hours == {0, 12, 23}
HoursPerDay == 24

\* the instant, in hours, of `hour` o'clock local time on the day `day`
LocalInstant(day, hour, offset) == day * HoursPerDay + hour - offset

\* Date.UTC(d.getUTCFullYear(), d.getUTCMonth(), d.getUTCDate()) in days
UtcDate(instant) == instant \div HoursPerDay

\* computeReceiptAgeDays on a date built at local midnight of the day
\* `receiptDay`, called at `hour` o'clock local time of the day `nowDate`
ReceiptAgeDays(receiptDay, nowDate, hour, offset) ==
  computeReceiptAgeDays(
    UtcDate(LocalInstant(receiptDay, 0, offset)),
    UtcDate(LocalInstant(LocalMidnight(nowDate.year, nowDate.month - 1,
                                       nowDate.day),
                         hour, offset)))

\* the date check on a normalized date: any numeric date text, read at any
\* of the hours of any of the days on a server in any of the time zones
InitAge ==
  /\ InitProgram /\ ~cosmos /\ DOMAIN users = {}
  /\ \E part1 \in Parts, part2 \in Parts, year \in Years, nowDate \in Nows,
        offset \in Offsets, hour \in Hours :
       norm = [NoNorm EXCEPT !.part1 = part1, !.part2 = part2, !.year = year,
                             !.now = nowDate, !.offset = offset,
                             !.hour = hour]

ComputeAge ==
  /\ norm.done /\ norm.date # Null /\ norm.age = Null
  /\ norm' = [norm EXCEPT
                !.age = Some(ReceiptAgeDays(norm.date[1], norm.now,
                                            norm.hour, norm.offset))]
  /\ UNCHANGED << cosmos, stores, now, pc, req, loc, resp, started, history,
                  pre, did >>

NextAge == Normalize \/ ComputeAge

AgeSpec == InitAge /\ [][NextAge]_vars

\* ------------------------------------------------------------- histories
InitialBalance(u) == IF u \in DOMAIN init0.users THEN init0.users[u] ELSE 0

\* the rewards issued to u by redeem-reward calls that succeeded
IssuedTo(u) ==
  { i \in (init0.nRewards + 1)..Len(rewards) : rewards[i].userId = u }

RECURSIVE SumCost(_)
SumCost(S) ==
  IF S = {} THEN 0
  ELSE LET i == CHOOSE j \in S : TRUE
       IN rewards[i].pointsCost + SumCost(S \ {i})

Finished(p, kind) == pc[p] = "done" /\ req[p].kind = kind

TypeOK ==
  /\ cosmos \in BOOLEAN
  /\ DOMAIN users \subseteq UserIds
  /\ \A u \in DOMAIN users : users[u] \in Int
  /\ Len(honoured) = Len(rewards)
  /\ started \in 0..(MaxRequests + MaxSeqRequests)
  /\ now \in 0..MaxClock

\* ================================================================ claims

\* C1: once all concurrent addPoints calls for a user have completed, and no
\* debit was written, the balance is the initial balance plus the sum of the
\* deltas of the completed calls (no credit is lost).
C1_NoLostCredit ==
  \A u \in UserIds :
    Quiescent /\ debited[u] = 0 => Balance(u) = InitialBalance(u) + credited[u]

\* C2: when no credit takes place and every debit written belongs to a
\* createReward call that succeeded, the total cost of the successful calls
\* of a user never exceeds the user's starting balance (every call beyond
\* what the balance allows fails with NOT_ENOUGH_POINTS).
C2_DebitsWithinBalance ==
  \A u \in UserIds :
    credited[u] = 0 /\ debited[u] = SumCost(IssuedTo(u))
      => SumCost(IssuedTo(u)) <= InitialBalance(u)

C4_CreditAndDebit ==
  \A p, q \in Procs :
    LET u == req[p].caller IN
    ( /\ Finished(p, "upload") /\ resp[p].status = 200
      /\ Finished(q, "redeem") /\ resp[q].status = 200
      /\ req[q].caller = u
      /\ credited[u] = resp[p].pointsEarned
      /\ debited[u] = Cost(q) )
    => Balance(u) = InitialBalance(u) + credited[u] - debited[u]

\* C5: for every reward id at most one validate-reward call is answered
\* valid:true.
C5_HonouredAtMostOnce == \A id \in 1..Len(rewards) : honoured[id] <= 1

\* C6: of the validate-reward calls made one after the other on an existing
\* reward, the first is answered valid:true and every later one 409
\* ALREADY_REDEEMED with the reward's name, leaving the reward (and so its
\* redeemedAt) as the first call left it.
C6_Returns(p, id) ==
  /\ req[p].kind = "validate" /\ req[p].rewardId = id
  /\ pc[p] # "done" /\ pc'[p] = "done"

C6_RedeemTwice ==
  [][\A id \in 1..Len(rewards) :
       /\ C6_Returns(SeqProc, id) =>
            IF honoured[id] = 0
              THEN /\ resp'[SeqProc].status = 200 /\ resp'[SeqProc].valid
                   /\ honoured'[id] = 1
                   /\ rewards'[id].redeemed
              ELSE /\ resp'[SeqProc] = AlreadyRedeemed(rewards[id])
                   /\ rewards'[id] = rewards[id]
       /\ rewards[id].redeemedAt # Null =>
            rewards'[id].redeemedAt = rewards[id].redeemedAt]_vars

C6_Witness ==
  LET id == req[SeqProc].rewardId IN
    /\ Finished(SeqProc, "validate") /\ id \in 1..Len(rewards)
    /\ resp[SeqProc].status = 409 /\ honoured[id] = 1
    /\ rewards[id].redeemedAt # Null /\ rewards[id].redeemedAt # Some(now)

\* C7: a reward's redeemed flag never goes back from true to false, and
\* redeemedAt is set exactly when redeemed is true.
C7_RedeemedForward ==
  /\ [](\A id \in 1..Len(rewards) :
          rewards[id].redeemedAt # Null <=> rewards[id].redeemed)
  /\ [][\A id \in 1..Len(rewards) :
          rewards[id].redeemed => id <= Len(rewards') /\ rewards'[id].redeemed]_vars

C7_Witness ==
  \E p \in Procs :
    /\ Finished(p, "validate") /\ resp[p].status = 409
    /\ rewards[req[p].rewardId].redeemed
    /\ rewards[req[p].rewardId].redeemedAt # Null

\* C8: the step in which createReward has the caller's balance and finds it
\* below the resolved pointsCost ends the request with 400 NOT_ENOUGH_POINTS,
\* creates no reward and leaves every balance as it was; with a balance that
\* covers the cost it does not answer NOT_ENOUGH_POINTS.
C8_ChecksBalance(p) ==
  /\ req[p].kind = "redeem" /\ pc[p] \in {"rr_create", "cr_newuser"}
  /\ pc'[p] \notin {pc[p], "cr_newuser"} /\ resp'[p].status # 500

C8_NotEnoughPoints ==
  [][\A p \in Procs :
       C8_ChecksBalance(p) =>
         IF Balance(req[p].caller) < Cost(p)
           THEN /\ pc'[p] = "done"
                /\ resp'[p] = ErrorResp(400, "NOT_ENOUGH_POINTS")
                /\ rewards' = rewards
                /\ \A v \in UserIds : Balance(v)' = Balance(v)
           ELSE resp'[p].error # "NOT_ENOUGH_POINTS"]_vars

C8_Witness ==
  \E p \in Procs :
    /\ Finished(p, "redeem") /\ resp[p].error = "NOT_ENOUGH_POINTS"
    /\ pre[p].balance = 35 /\ Cost(p) = 40
    /\ Balance(req[p].caller) = 35 /\ Len(rewards) = pre[p].nRewards

\* C9: a redeem-reward request of a caller whose balance covers the resolved
\* pointsCost answers 200; the stored balance is the earlier one minus
\* pointsCost, one new reward of the caller with redeemed = false and that
\* pointsCost is stored, and newBalance is the stored balance.
C9_RedeemSucceeds ==
  LET p == SeqProc
      u == req[p].caller
  IN Finished(p, "redeem") /\ u # Anonymous /\ pre[p].balance >= Cost(p)
     => /\ resp[p].status = 200
        /\ Balance(u) = pre[p].balance - Cost(p)
        /\ resp[p].newBalance = Some(Balance(u))
        /\ Len(rewards) = pre[p].nRewards + 1
        /\ resp[p].rewardId = Len(rewards)
        /\ rewards[Len(rewards)].userId = u
        /\ rewards[Len(rewards)].pointsCost = Cost(p)
        /\ ~rewards[Len(rewards)].redeemed

C9_Witness ==
  /\ Finished(SeqProc, "redeem") /\ resp[SeqProc].status = 200
  /\ pre[SeqProc].balance = 80 /\ Cost(SeqProc) = 80
  /\ Balance(req[SeqProc].caller) = 0

\* C10: an upload-receipt request carrying image bytes that an earlier request
\* was accepted with is answered 400 DUPLICATE_RECEIPT, whoever the callers are.
C10_DuplicateRejected ==
  LET p == SeqProc IN
    ( /\ Finished(p, "upload") /\ req[p].caller # Anonymous
      /\ req[p].image \in Images /\ pre[p].accepted )
    => resp[p] = ErrorResp(400, "DUPLICATE_RECEIPT")

C10_Witness ==
  \E i \in 1..Len(receipts) :
    /\ Finished(SeqProc, "upload") /\ resp[SeqProc].error = "DUPLICATE_RECEIPT"
    /\ receipts[i].imageHash = req[SeqProc].image
    /\ receipts[i].userId # req[SeqProc].caller

\* C11: in every reachable state, also after concurrent upload-receipt
\* requests with the same image bytes, no two persisted receipts have the
\* same imageHash.
C11_UniqueImageHash ==
  \A i, j \in 1..Len(receipts) :
    i # j => receipts[i].imageHash # receipts[j].imageHash

\* C12: the duplicate lookup that finds a receipt with the request's imageHash
\* ends the request with 400 DUPLICATE_RECEIPT, and no request answered
\* DUPLICATE_RECEIPT has called the extractor.
C12_DuplicateBeforeExtractor ==
  /\ [](\A p \in Procs :
          resp[p].error = "DUPLICATE_RECEIPT" => did[p].analysis = Null)
  /\ [][\A p \in Procs :
          pc[p] = "ur_find" /\ pc'[p] # "ur_find" /\ resp'[p].status # 500
            => IF FindReceiptByImageHash(req[p].image) # {}
                 THEN /\ pc'[p] = "done"
                      /\ resp'[p] = ErrorResp(400, "DUPLICATE_RECEIPT")
                 ELSE resp'[p].error # "DUPLICATE_RECEIPT"]_vars

C12_Witness ==
  \E p \in Procs :
    /\ Finished(p, "upload") /\ resp[p].error = "DUPLICATE_RECEIPT"
    /\ FindReceiptByImageHash(req[p].image) # {}
    /\ did[p].analysis = Null

\* C13: an upload-receipt request answered with a blocking rejection
\* (DUPLICATE_RECEIPT, DAILY_LIMIT_REACHED, or RECEIPT_REJECTED, whose reasons
\* include MERCHANT_NOT_BURGER_KING, RECEIPT_TOO_OLD, RECEIPT_IN_FUTURE or
\* DATE_NOT_DETECTED) has changed no store: no receipt, no image, no balance.
C13_Rejections ==
  {"DUPLICATE_RECEIPT", "DAILY_LIMIT_REACHED", "RECEIPT_REJECTED"}

C13_RejectionWritesNothing ==
  \A p \in Procs :
    Finished(p, "upload") /\ resp[p].error \in C13_Rejections
      => /\ ~did[p].wrote
         /\ resp[p].error = "RECEIPT_REJECTED" => HasBlocking(resp[p].reasons)

C13_Witness ==
  \E p \in Procs :
    /\ Finished(p, "upload") /\ resp[p].error = "DAILY_LIMIT_REACHED"
    /\ ~did[p].wrote /\ did[p].analysis # Null
    /\ Balance(req[p].caller) = InitialBalance(req[p].caller) + credited[req[p].caller]

\* the reason codes of a response
Codes(reasons) == { reasons[i] : i \in 1..Len(reasons) }

\* C14: when the extractor call throws, upload-receipt does not answer 500:
\* every extracted field counts as absent and the answer is 400
\* RECEIPT_REJECTED with DATE_NOT_DETECTED among its reasons; no receipt is
\* persisted and no points are credited.
C14_ExtractorThrows ==
  \A p \in Procs :
    Finished(p, "upload") /\ did[p].analysis # Null /\ did[p].analysis[1].threw
      => /\ resp[p].status = 400 /\ resp[p].error = "RECEIPT_REJECTED"
         /\ "DATE_NOT_DETECTED" \in Codes(resp[p].reasons)
         /\ "MERCHANT_NOT_BURGER_KING" \notin Codes(resp[p].reasons)
         /\ resp[p].amount = Null
         /\ ~did[p].wrote

C14_Witness ==
  \E p \in Procs :
    /\ Finished(p, "upload") /\ did[p].analysis # Null
    /\ did[p].analysis[1].threw
    /\ resp[p].reasons = << "DATE_NOT_DETECTED", "INVALID_AMOUNT" >>
    /\ receipts = << >> /\ credited[req[p].caller] = 0

\* the step in which the handler of p gets the extractor's result (or its
\* exception) and applies the merchant, date and amount checks to it
Analysed(p) == pc[p] = "ur_analyze" /\ did'[p].analysis # Null

\* the reason codes the checks of that step have collected
Collected(p) == Codes(resp'[p].reasons) \cup Codes(loc'[p].reasons)

DateCodes == {"DATE_NOT_DETECTED", "RECEIPT_TOO_OLD", "RECEIPT_IN_FUTURE"}

\* C15: the merchant check adds MERCHANT_NOT_BURGER_KING, and the request is
\* rejected, exactly when the extractor's merchant result is a confirmed
\* mismatch (false); with a confirmed match (true) or an unknown result
\* (null) the reason is not added, and a rejection is due to the date check.
C15_MerchantCheck ==
  [][\A p \in Procs :
       Analysed(p) =>
         LET hasBurgerKing == did'[p].analysis[1].hasBurgerKing IN
         /\ "MERCHANT_NOT_BURGER_KING" \in Collected(p)
              <=> hasBurgerKing = "false"
         /\ hasBurgerKing = "false"
              => pc'[p] = "done" /\ resp'[p].error = "RECEIPT_REJECTED"
         /\ hasBurgerKing \in {"true", "null"} /\ pc'[p] = "done"
              => Collected(p) \cap DateCodes # {}]_vars

C15_Witness ==
  \E p, q \in Procs :
    /\ Finished(p, "upload") /\ did[p].analysis # Null
    /\ did[p].analysis[1].hasBurgerKing = "null" /\ resp[p].status = 200
    /\ Finished(q, "upload") /\ did[q].analysis # Null
    /\ did[q].analysis[1].hasBurgerKing = "false"
    /\ resp[q].reasons = << "MERCHANT_NOT_BURGER_KING" >>

\* C16: with age the number of whole days from the transaction date to now, a
\* submission without a date gets DATE_NOT_DETECTED, one of age > 2
\* RECEIPT_TOO_OLD, one of age < -1 RECEIPT_IN_FUTURE, and one of age -1, 0,
\* 1 or 2 none of the three: exactly one of the four outcomes applies.
C16_DateOutcome(p) ==
  LET date == IF did'[p].analysis[1].threw THEN Null
              ELSE did'[p].analysis[1].date
  IN IF date = Null THEN {"DATE_NOT_DETECTED"}
     ELSE IF now - date[1] > 2 THEN {"RECEIPT_TOO_OLD"}
     ELSE IF now - date[1] < -1 THEN {"RECEIPT_IN_FUTURE"}
     ELSE {}

C16_DateCheck ==
  [][\A p \in Procs :
       Analysed(p) =>
         /\ Collected(p) \cap DateCodes = C16_DateOutcome(p)
         /\ C16_DateOutcome(p) # {}
              => pc'[p] = "done" /\ resp'[p].error = "RECEIPT_REJECTED"]_vars

C16_Ages(p) ==
  IF did[p].analysis # Null /\ did[p].analysis[1].date # Null
       /\ resp[p].status = 200
    THEN { receipts[resp[p].receiptId].createdAt - did[p].analysis[1].date[1] }
    ELSE {}

C16_Witness ==
  \E p, q \in Procs :
    /\ Finished(p, "upload") /\ C16_Ages(p) = {2}
    /\ Finished(q, "upload") /\ did[q].analysis # Null
    /\ resp[q].reasons = << "RECEIPT_IN_FUTURE" >>

\* the extracted amount is absent or not positive
C18_InvalidAmount(a) == a.threw \/ a.amount = Null \/ a.amount[1] <= 0

\* C18: when no positive amount is extracted and neither the merchant nor the
\* date check blocks, the request goes on (INVALID_AMOUNT alone does not
\* reject) with the fallback amount 75; a request answered 200 after an
\* invalid amount has stored the amount 75 and earned the points of 75.
C18_FallbackAmount ==
  /\ [][\A p \in Procs :
          Analysed(p) /\ C18_InvalidAmount(did'[p].analysis[1])
            => /\ "INVALID_AMOUNT" \in Collected(p)
               /\ IF Collected(p) = {"INVALID_AMOUNT"}
                    THEN /\ pc'[p] = "ur_count"
                         /\ loc'[p].amount = Some(75 * AmountUnit)
                    ELSE /\ pc'[p] = "done"
                         /\ Collected(p) \cap BlockingCodes # {}]_vars
  /\ [](\A p \in Procs :
          ( /\ Finished(p, "upload") /\ resp[p].status = 200
            /\ C18_InvalidAmount(did[p].analysis[1]) )
          => /\ resp[p].amount = Some(75 * AmountUnit)
             /\ resp[p].pointsEarned = 75
             /\ receipts[resp[p].receiptId].amount = 75 * AmountUnit
             /\ receipts[resp[p].receiptId].pointsEarned = 75)

C18_Witness ==
  \E p \in Procs :
    /\ Finished(p, "upload") /\ resp[p].status = 200
    /\ did[p].analysis[1].amount = Some(-10)
    /\ receipts[resp[p].receiptId].amount = 75 * AmountUnit
    /\ credited[req[p].caller] = 75

\* C19: a request accepted although the extracted amount is invalid still
\* returns an INVALID_AMOUNT advisory reason to the caller.
C19_AdvisorySurfaced ==
  \A p \in Procs :
    ( /\ Finished(p, "upload") /\ resp[p].status = 200
      /\ C18_InvalidAmount(did[p].analysis[1]) )
    => "INVALID_AMOUNT" \in Codes(resp[p].reasons)

\* the receipts of the caller of p created on the current day
C20_Today(p) ==
  { i \in 1..Len(receipts) :
      receipts[i].userId = req[p].caller /\ receipts[i].createdAt = now }

\* C20: in requests served one after the other, an upload-receipt that has
\* passed the duplicate, merchant and date checks is answered 400
\* DAILY_LIMIT_REACHED, writing nothing, when the caller has 3 (or more)
\* receipts created on the current day, and goes on to be accepted when the
\* caller has fewer; receipts of other users and of other days do not count.
C20_DailyLimit ==
  /\ [][LET p == SeqProc IN
         pc[p] = "ur_count" /\ pc'[p] # "ur_count"
           => IF Cardinality(C20_Today(p)) >= 3
                THEN /\ pc'[p] = "done"
                     /\ resp'[p] = ErrorResp(400, "DAILY_LIMIT_REACHED")
                     /\ stores' = stores
                ELSE pc'[p] = "ur_blob"]_vars
  /\ [](LET p == SeqProc IN
          Finished(p, "upload") /\ did[p].analysis # Null
            => \/ resp[p].error \in {"RECEIPT_REJECTED", "DAILY_LIMIT_REACHED"}
               \/ /\ resp[p].status = 200
                  /\ receipts[resp[p].receiptId].userId = req[p].caller
                  /\ Cardinality({ i \in 1..Len(receipts) :
                        /\ receipts[i].userId = req[p].caller
                        /\ receipts[i].createdAt
                             = receipts[resp[p].receiptId].createdAt }) <= 3)

\* the caller's third receipt of the day was accepted by an earlier request
\* and this one is refused; the three receipts another user has had accepted
\* on the same day did not count against the third
C20_Witness ==
  LET p == SeqProc IN
    /\ Finished(p, "upload") /\ resp[p].error = "DAILY_LIMIT_REACHED"
    /\ req[p].caller = "user-2"
    /\ Cardinality(C20_Today(p)) = 3
    /\ \E i \in C20_Today(p) : receipts[i].imageHash \in accepted
    /\ Cardinality({ i \in 1..Len(receipts) :
          receipts[i].userId # "user-2" /\ receipts[i].createdAt = now }) = 3

\* the day numbers of 13 Feb 2025 and of the day norm.now
C17_Feb13 == DaysBeforeYear(2025) + 31 + 12

C17_Base ==
  DaysBeforeYear(norm.now.year) + DaysBeforeMonth(norm.now.year, norm.now.month)
    + norm.now.day - 1

\* the result is the candidate closest to now, and there is none without one
C17_Closest(candidates) ==
  IF candidates = {} THEN norm.date = Null
  ELSE /\ norm.date # Null /\ norm.date[1] \in candidates
       /\ \A c \in candidates :
            Abs(norm.date[1] - C17_Base) <= Abs(c - C17_Base)

C17_Examples ==
  /\ norm.year = 2025 /\ norm.now = Civil(2025, 2, 13)
       /\ << norm.part1, norm.part2 >> \in {<< 13, 2 >>, << 2, 13 >>}
     => norm.date = Some(C17_Feb13)

\* C17 as stated: the day-first candidate (day P1, month P2) exists when
\* P1 <= 31 and P2 <= 12, the month-first one (month P1, day P2) when
\* P1 <= 12 and P2 <= 31; the closest to now is returned, 13/02/2025 and
\* 02/13/2025 read on 2025-02-13 both give 13 Feb 2025, and no date is
\* returned without a candidate.
C17_AsStated ==
  LET P1 == norm.part1
      P2 == norm.part2
      dayFirst == IF P1 <= 31 /\ P2 <= 12
                    THEN {LocalMidnight(norm.year, P2 - 1, P1)} ELSE {}
      monthFirst == IF P1 <= 12 /\ P2 <= 31
                      THEN {LocalMidnight(norm.year, P1 - 1, P2)} ELSE {}
  IN norm.done => C17_Closest(dayFirst \cup monthFirst) /\ C17_Examples

\* C17, amended: the day-first candidate exists when 1 <= P1 <= 31 and
\* 1 <= P2 <= 12, the month-first one when 1 <= P1 <= 12 and 1 <= P2 <= 31;
\* the rest as stated.
C17_Normalized ==
  LET P1 == norm.part1
      P2 == norm.part2
      dayFirst == IF P1 \in 1..31 /\ P2 \in 1..12
                    THEN {DaysBeforeYear(norm.year)
                            + DaysBeforeMonth(norm.year, P2) + P1 - 1}
                    ELSE {}
      monthFirst == IF P1 \in 1..12 /\ P2 \in 1..31
                      THEN {DaysBeforeYear(norm.year)
                              + DaysBeforeMonth(norm.year, P1) + P2 - 1}
                      ELSE {}
  IN norm.done => C17_Closest(dayFirst \cup monthFirst) /\ C17_Examples

\* 04/03/2025 read on 2025-04-03: both candidates exist and the month-first
\* one, 3 Apr 2025, is the closer
C17_Witness ==
  /\ norm.done /\ norm.now = Civil(2025, 4, 3) /\ norm.year = 2025
  /\ norm.part1 = 4 /\ norm.part2 = 3
  /\ norm.date = Some(C17_Base)

\* the amount the handler of an accepted request works with: the extracted
\* amount in tenths, or 75 when none is usable
C21_Amount(p) ==
  LET a == did[p].analysis[1] IN
    IF a.amount = Null \/ a.amount[1] <= 0 THEN 750 ELSE a.amount[1]

C21_Accepted(p) == Finished(p, "upload") /\ resp[p].status = 200

\* C21: for every accepted receipt pointsEarned is floor(min(amount, 80) / 10),
\* one point for 10 currency units: an amount of 42.50 earns 4 points.
C21_TenUnitsPerPoint ==
  \A p \in Procs :
    C21_Accepted(p)
      => /\ resp[p].pointsEarned = Min(C21_Amount(p), 800) \div 100
         /\ receipts[resp[p].receiptId].pointsEarned = resp[p].pointsEarned

\* C22: the amount stored on an accepted receipt and returned in the response
\* is the extracted (or fallback) amount without the cap, also above 80; only
\* pointsEarned is computed from the capped amount.
C22_AmountUncapped ==
  \A p \in Procs :
    C21_Accepted(p)
      => /\ resp[p].amount = Some(C21_Amount(p))
         /\ receipts[resp[p].receiptId].amount = C21_Amount(p)
         /\ C21_Amount(p) > 800 => resp[p].pointsEarned = 80

C22_Witness ==
  \E p \in Procs :
    /\ C21_Accepted(p) /\ did[p].analysis[1].amount = Some(1000)
    /\ receipts[resp[p].receiptId].amount = 1000
    /\ receipts[resp[p].receiptId].pointsEarned = 80

\* the receipts persisted with the image of the request of p
C23_Persisted(p) ==
  { i \in 1..Len(receipts) : receipts[i].imageHash = req[p].image }

\* C23: an accepted upload-receipt, served with no other request in between,
\* has persisted exactly one receipt with the caller's userId, the imageHash,
\* the amount and pointsEarned, and has credited the caller with exactly
\* pointsEarned; the step that answers 200 finds the receipt persisted and
\* completes the credit, and the answer carries the new balance (the balance
\* before the request plus pointsEarned) and the id of the receipt.
C23_PersistCreditRespond ==
  /\ [](LET p == SeqProc
            u == req[p].caller
        IN C21_Accepted(p)
             => /\ C23_Persisted(p) = {resp[p].receiptId}
                /\ receipts[resp[p].receiptId].userId = u
                /\ receipts[resp[p].receiptId].amount = resp[p].amount[1]
                /\ receipts[resp[p].receiptId].pointsEarned
                     = resp[p].pointsEarned
                /\ Balance(u) = pre[p].balance + resp[p].pointsEarned
                /\ resp[p].newBalance = Some(Balance(u)))
  /\ [][LET p == SeqProc
            u == req[p].caller
        IN req[p].kind = "upload" /\ pc[p] # "done" /\ resp'[p].status = 200
             => /\ C23_Persisted(p) = {resp'[p].receiptId}
                /\ receipts' = receipts
                /\ u \in DOMAIN users'
                /\ users'[u] = Balance(u) + resp'[p].pointsEarned]_vars

C23_Witness ==
  LET p == SeqProc IN
    /\ C21_Accepted(p) /\ cosmos
    /\ pre[p].balance = 35 /\ resp[p].pointsEarned = 42
    /\ resp[p].newBalance = Some(77) /\ Balance(req[p].caller) = 77

\* a step in which the handler of p is in getUser: the balance handler's
\* call, or the call that addPoints and createReward start with on Cosmos
C24_InGetUser(p) ==
  /\ \/ pc[p] \in {"gb_get", "gb_newuser"}
     \/ cosmos /\ pc[p] \in {"ur_add", "ap_newuser", "rr_create", "cr_newuser"}
  /\ pc'[p] # pc[p]

\* C24: getUser returns the stored account when there is one and otherwise
\* creates it with points = 0 and returns that; it leaves the points of every
\* existing account as they are, and there is one account per userId.
C24_GetUser ==
  [][\A p \in Procs :
       C24_InGetUser(p) =>
         LET u == req[p].caller IN
         /\ \A v \in DOMAIN users : v \in DOMAIN users' /\ users'[v] = users[v]
         /\ DOMAIN users' \subseteq DOMAIN users \cup {u}
         /\ u \in DOMAIN users' \ DOMAIN users => users'[u] = 0
         /\ req[p].kind = "balance" /\ resp'[p].status = 200
              => /\ u \in DOMAIN users'
                 /\ resp'[p].userId = u
                 /\ resp'[p].points = Some(users'[u])
         /\ pc'[p] = "ap_upsert"
              => u \in DOMAIN users' /\ loc'[p].current = users'[u]]_vars

\* two balance requests on an account that did not exist: one has created
\* it, the other has found it, and both were answered its 0 points
C24_Witness ==
  \E p, q \in Procs :
    /\ p # q /\ cosmos
    /\ "demo-user-1" \notin DOMAIN init0.users
    /\ Finished(p, "balance") /\ resp[p].points = Some(0)
    /\ Finished(q, "balance") /\ resp[q].points = Some(0)
    /\ DOMAIN users = {"demo-user-1"} /\ users["demo-user-1"] = 0

\* C25: the balance endpoint answers with the userId and points of the
\* sender that getUserId resolves, and with 401 when getUserId resolves no
\* sender.
C25_BalanceOfCaller ==
  \A p \in Procs :
    Finished(p, "balance") /\ resp[p].status # 500 =>
      IF getUserId(req[p].http) = Anonymous
        THEN resp[p].status = 401
        ELSE /\ resp[p].status = 200
             /\ resp[p].userId = getUserId(req[p].http)

\* the sender of the request of p is not signed in and is not on localhost
C26_NotSignedIn(p) ==
  /\ req[p].kind \in {"upload", "redeem"}
  /\ getClientPrincipalFromRequest(req[p].http) \in
       {Null, Some([userId |-> NullStr])}
  /\ Host(req[p].http.url) # "localhost"

C26_NullUserId ==
  \A p \in Procs :
    req[p].kind \in {"upload", "redeem"} /\ getUserId(req[p].http) = Anonymous
      => /\ pc[p] = "done"
         /\ resp[p] = ErrorResp(401, "UNAUTHENTICATED")
         /\ did[p] = NoDid

\* C27: the response to a request whose store or blob call failed is 500
\* INTERNAL_ERROR and its body does not carry the text of the error.
C27_NoErrorText ==
  \A p \in Procs :
    req[p].kind \in {"upload", "redeem"} /\ resp[p].status = 500 =>
      /\ resp[p].error = "INTERNAL_ERROR"
      /\ resp[p].message \notin (ErrorTexts \cup {ConflictText}) \ {""}

\* the request of p has been answered with an issued reward
C28_Issued(p) ==
  /\ Finished(p, "redeem") /\ resp[p].status = 200
  /\ resp[p].rewardId \in 1..Len(rewards)

\* C28: a reward issued for a body whose tier is a tag of the catalog has the
\* catalog's name and pointsCost for that tag, in the store and in the
\* response, whatever rewardName and pointsCost the body carries.
C28_CatalogValues ==
  \A p \in Procs :
    C28_Issued(p) /\ req[p].body.tier \in DOMAIN REWARD_TIERS =>
      LET entry == REWARD_TIERS[req[p].body.tier]
          reward == rewards[resp[p].rewardId]
      IN /\ reward.name = entry.name
         /\ reward.pointsCost = entry.pointsCost
         /\ resp[p].rewardName = entry.name
         /\ resp[p].pointsCost = entry.pointsCost

C28_Witness ==
  \E p \in Procs :
    /\ C28_Issued(p)
    /\ req[p].body = [tier |-> "FREE_MENU", rewardName |-> "Whopper",
                      pointsCost |-> Some(1)]
    /\ rewards[resp[p].rewardId].name = "Free menu"
    /\ rewards[resp[p].rewardId].pointsCost = 40
    /\ debited[req[p].caller] = 40

\* the body of the request of p carries no tag of the catalog
C29_Legacy(p) ==
  req[p].kind = "redeem" /\ req[p].body.tier \notin DOMAIN REWARD_TIERS

C29_Name(body) ==
  IF body.rewardName = NullStr THEN "Free Sundae" ELSE body.rewardName

C29_Cost(body) ==
  IF body.pointsCost = Null THEN 100 ELSE body.pointsCost[1]

C30_TierStored ==
  \A p \in Procs :
    C28_Issued(p) =>
      rewards[resp[p].rewardId].tier =
        IF req[p].body.tier \in DOMAIN REWARD_TIERS THEN req[p].body.tier
        ELSE NullStr

\* C31: the qrPayload of a redeem-reward response is 'reward:' followed by
\* the id of the issued reward, the same text a client builds from the id
\* alone; the staff app's stripping of it gives back that id, and the reward
\* looked up under it is the issued one.
C31_QrRoundTrip ==
  \A p \in Procs :
    C28_Issued(p) =>
      LET id == RewardIdText(resp[p].rewardId)
      IN /\ resp[p].qrPayload = << "reward:" >> \o id
         /\ resp[p].qrPayload = qrValue(id)
         /\ handleScanResult(resp[p].qrPayload) = id
         /\ RewardWithId(handleScanResult(resp[p].qrPayload))
              = resp[p].rewardId

C31_Witness ==
  \E p, q \in Procs :
    /\ C28_Issued(p) /\ Finished(q, "validate") /\ resp[q].valid
    /\ req[q].rewardId = RewardWithId(handleScanResult(resp[p].qrPayload))
    /\ req[q].rewardId = resp[p].rewardId
    /\ rewards[resp[p].rewardId].redeemed

\* C32: the rewards listing answers an authenticated caller with exactly the
\* caller's rewards, newest first by createdAt, each as it is in the store.
C32_OwnRewardsNewestFirst ==
  \A p \in Procs :
    Finished(p, "rewards") /\ req[p].caller # Anonymous =>
      LET list == resp[p].rewards
      IN /\ resp[p].status = 200
         /\ \A i \in 1..Len(list) : list[i] \in 1..Len(rewards)
         /\ {list[i] : i \in 1..Len(list)}
              = {n \in 1..Len(rewards) : rewards[n].userId = req[p].caller}
         /\ \A i, j \in 1..Len(list) :
              i < j => /\ list[i] # list[j]
                       /\ rewards[list[i]].createdAt
                            >= rewards[list[j]].createdAt

\* the request of p is a validate-reward request with these ids
C33_Validate(p, bodyId, urlId) ==
  /\ req[p].kind = "validate"
  /\ req[p].bodyId = bodyId /\ req[p].urlId = urlId

\* C33: validate-reward without an id in body and query is answered 400
\* MISSING_ID and never calls the store; with an id that no reward has it is
\* answered 404 NOT_FOUND and changes no reward; with an id in both, the
\* body's id is the one looked up and answered for.
C33_MissingAndUnknown ==
  \A p \in Procs :
    /\ C33_Validate(p, NoId, NoId) =>
         /\ pc[p] = "done"
         /\ resp[p] = ErrorResp(400, "MISSING_ID")
         /\ did[p] = NoDid
    /\ \A bodyId, urlId \in NoId..Len(rewards) :
         LET id == IF bodyId # NoId THEN bodyId ELSE urlId
         IN  /\ C33_Validate(p, bodyId, urlId) /\ pc[p] = "done"
             /\ resp[p].status # 500 /\ id # NoId
             => /\ id \notin 1..Len(rewards) =>
                     /\ resp[p] = ErrorResp(404, "NOT_FOUND")
                     /\ ~did[p].wrote
                /\ id \in 1..Len(rewards) =>
                     /\ resp[p].status \in {200, 409}
                     /\ resp[p].rewardName = rewards[id].name
                     /\ rewards[id].redeemed
                     /\ resp[p].status = 409 => ~did[p].wrote

C33_Witness ==
  \E p \in Procs :
    /\ C33_Validate(p, UnknownId, 1) /\ pc[p] = "done"
    /\ resp[p] = ErrorResp(404, "NOT_FOUND")
    /\ Len(rewards) = 1 /\ ~rewards[1].redeemed

\* the points of the receipts of u numbered above `from`
RECURSIVE C34_Earned(_, _, _)
C34_Earned(u, from, n) ==
  IF n <= from THEN 0
  ELSE C34_Earned(u, from, n - 1)
         + (IF receipts[n].userId = u THEN receipts[n].pointsEarned ELSE 0)

\* the costs of the rewards of u numbered above `from`
RECURSIVE C34_Spent(_, _, _)
C34_Spent(u, from, n) ==
  IF n <= from THEN 0
  ELSE C34_Spent(u, from, n - 1)
         + (IF rewards[n].userId = u THEN rewards[n].pointsCost ELSE 0)

\* C34: with no request in flight, also after requests that failed on a
\* store or blob call, every user's balance has changed since the start by
\* the pointsEarned of the user's receipts persisted since then minus the
\* pointsCost of the user's rewards persisted since then.
C34_Conservation ==
  Quiescent =>
    \A u \in UserIds :
      Balance(u) - InitialBalance(u)
        = C34_Earned(u, init0.nReceipts, Len(receipts))
            - C34_Spent(u, init0.nRewards, Len(rewards))

\* C35: in every reachable state, also under concurrent upload-receipt
\* requests of one user with different images, no user has more than
\* DAILY_RECEIPT_LIMIT persisted receipts created on one calendar day.
C35_AtMostLimitPerDay ==
  \A u \in UserIds, day \in 0..MaxClock :
    Cardinality({i \in 1..Len(receipts) :
                   receipts[i].userId = u /\ receipts[i].createdAt = day})
      <= 3

\* C36: every persisted reward has a pointsCost of at least 0, and a
\* redeem-reward request, whatever its body, leaves the caller's balance no
\* higher than it was before the request.
C36_NeverRaisesBalance ==
  /\ \A n \in 1..Len(rewards) : rewards[n].pointsCost >= 0
  /\ Finished(SeqProc, "redeem") =>
       Balance(req[SeqProc].caller) <= pre[SeqProc].balance

\* the step is one of an upload-receipt or redeem-reward request of p
C37_StepOf(p) ==
  pc'[p] # pc[p] /\ req'[p].kind \in {"upload", "redeem"}

\* C37: a step of an upload-receipt or redeem-reward request of user A, in
\* any interleaving, leaves the account of every other user as it is and
\* neither alters nor adds a receipt or a reward of another user.
C37_OtherUsersUntouched ==
  [][\A p \in Procs :
       C37_StepOf(p) =>
         /\ \A v \in UserIds \ {req'[p].caller} :
              /\ v \in DOMAIN users' <=> v \in DOMAIN users
              /\ Balance(v)' = Balance(v)
         /\ \A i \in 1..Len(receipts) :
              i <= Len(receipts') /\ receipts'[i] = receipts[i]
         /\ \A i \in (Len(receipts) + 1)..Len(receipts') :
              receipts'[i].userId = req'[p].caller
         /\ \A i \in 1..Len(rewards) :
              i <= Len(rewards') /\ rewards'[i] = rewards[i]
         /\ \A i \in (Len(rewards) + 1)..Len(rewards') :
              rewards'[i].userId = req'[p].caller]_vars

C37_Witness ==
  \E p, q \in Procs :
    /\ Finished(p, "upload") /\ resp[p].status = 200
    /\ Finished(q, "upload") /\ resp[q].error = "DUPLICATE_RECEIPT"
    /\ req[p].image = req[q].image /\ req[p].caller # req[q].caller
    /\ Balance(req[q].caller) = InitialBalance(req[q].caller)
    /\ Balance(req[q].caller) > 0
    /\ Balance(req[p].caller)
         = InitialBalance(req[p].caller) + resp[p].pointsEarned

\* the step is one of a validate-reward request of p
C38_StepOf(p) == pc'[p] # pc[p] /\ req'[p].kind = "validate"

\* C38: a step of validate-reward changes no account, no receipt and no
\* reward other than the one whose id was given, of which it changes nothing
\* but redeemed and redeemedAt; it changes nothing at all when that reward is
\* already redeemed.
C38_OnlyRedeemedFlag ==
  [][\A p \in Procs :
       C38_StepOf(p) =>
         LET id == req'[p].rewardId IN
         /\ users' = users /\ receipts' = receipts /\ blobs' = blobs
         /\ Len(rewards') = Len(rewards)
         /\ \A n \in 1..Len(rewards) :
              IF n = id /\ ~rewards[n].redeemed
                THEN rewards'[n] \in
                       {rewards[n],
                        [rewards[n] EXCEPT !.redeemed = TRUE,
                                           !.redeemedAt = Some(now)]}
                ELSE rewards'[n] = rewards[n]]_vars

\* the merchant and date reasons that apply to what the extractor returned
C39_Blocking(a, today) ==
  (IF ~a.threw /\ a.hasBurgerKing = "false"
     THEN << "MERCHANT_NOT_BURGER_KING" >> ELSE << >>)
  \o (IF a.threw \/ a.date = Null THEN << "DATE_NOT_DETECTED" >>
      ELSE IF today - a.date[1] > 2 THEN << "RECEIPT_TOO_OLD" >>
      ELSE IF today - a.date[1] < -1 THEN << "RECEIPT_IN_FUTURE" >>
      ELSE << >>)

C39_Amount(a) ==
  IF a.threw \/ a.amount = Null \/ a.amount[1] <= 0
    THEN << "INVALID_AMOUNT" >> ELSE << >>

\* C39: the checks on the extractor's result answer RECEIPT_REJECTED exactly
\* when a merchant or date reason applies, whatever the caller's number of
\* receipts of the day, and the response then lists every reason that
\* applies: MERCHANT_NOT_BURGER_KING, the one date reason, INVALID_AMOUNT, in
\* this order.
C39_AllReasonsInOrder ==
  [][\A p \in Procs :
       Analysed(p) =>
         LET a == did'[p].analysis[1]
             blocking == C39_Blocking(a, now)
         IN /\ resp'[p].error = "RECEIPT_REJECTED" <=> blocking # << >>
            /\ blocking # << >> =>
                 /\ pc'[p] = "done" /\ resp'[p].status = 400
                 /\ resp'[p].reasons = blocking \o C39_Amount(a)
            /\ blocking = << >> => pc'[p] # "done"]_vars

C39_Witness ==
  \E p \in Procs :
    /\ Finished(p, "upload") /\ resp[p].error = "RECEIPT_REJECTED"
    /\ resp[p].reasons
         = << "MERCHANT_NOT_BURGER_KING", "RECEIPT_TOO_OLD", "INVALID_AMOUNT" >>
    /\ CountReceiptsForUserOnDay(req[p].caller, now) >= DAILY_RECEIPT_LIMIT
    /\ ~did[p].wrote

\* C40: the age that the date check uses for a date parsed from D/M/Y text
\* is the number of calendar days from the printed date to today's local
\* date, in every time zone of the server and at every hour; a receipt
\* printed 2 calendar days ago is not too old.
C40_CalendarDays ==
  norm.age # Null =>
    /\ norm.age[1] = C17_Base - norm.date[1]
    /\ C17_Base - norm.date[1] = 2 => ~(norm.age[1] > 2)
====
